---- MODULE Spec2Model ----
(***************************************************************************)
(* Model of the MCP Assistant Playground (src/app.py, src/mcp_client.py,   *)
(* src/mcp_server.py).  app.py is a Streamlit script: every interaction    *)
(* (a chat message, a click on the camera checkbox, a photo) re-runs the   *)
(* script from top to bottom against st.session_state.  One script run is  *)
(* one action, ScriptRun; its inputs are the chat input, the state of the  *)
(* camera widgets, the oracle's reply and the outcomes of the transport    *)
(* calls.                                                                  *)
(*                                                                         *)
(* Strings the code inspects (the oracle's reply, the text of a content    *)
(* part) are sequences of tokens, so that startswith / endswith / strip    *)
(* and json.loads are computed on them the way the code computes them.     *)
(***************************************************************************)
EXTENDS Naturals, Sequences, FiniteSets, TLC

VARIABLES
    \* ---- st.session_state ----
    messages,                 \* st.session_state.messages
    selected_tool,            \* st.session_state.selected_tool   (None = key absent)
    camera_enabled,           \* st.session_state.camera_enabled  (None = key absent)
    captured_image,           \* st.session_state.captured_image  (None = absent or None)
    last_uploaded_image_url,  \* st.session_state.last_uploaded_image_url (None = absent)
    \* ---- front end: which camera widgets the previous run rendered ----
    checkbox_shown,
    camera_shown,
    \* ---- what the latest script run did ----
    user_input,               \* st.chat_input(...) of the run (None = no message)
    raw,                      \* the oracle's outcome for the run
    routing,                  \* value returned by select_tool_using_gpt
    tool,                     \* routing.get("tool")
    args,                     \* routing.get("args", {})
    calls,                    \* run_tool invocations of the run, in order:
                              \* [tool, args, raised]
    result,                   \* `result` as the rendering branches saw it
    content,                  \* `content` of the run (NoContent = never assigned)
    sink,                     \* what the run rendered besides `content`
    fault                     \* line at which the run died of an unhandled exception
                              \* (0 = the script ran to its end)

vars == <<messages, selected_tool, camera_enabled, captured_image,
          last_uploaded_image_url, checkbox_shown, camera_shown, user_input,
          raw, routing, tool, args, calls, result, content, sink, fault>>

None == "None"

\* Bound on the number of chat messages a session accepts in the model.
MaxTurns == 2

-----------------------------------------------------------------------------
(* The tool catalogue: the @mcp.tool() functions of mcp_server.py, the same *)
(* ten names the router's system prompt lists.                              *)

MemberTools ==
    {"get_all_members", "get_member_by_id", "create_member", "update_member",
     "delete_member"}

ToolRegistry ==
    {"chat_gpt4o", "gen_image_dalle3", "text_to_speech_gpt4o",
     "capture_image_from_camera", "describe_image_from_camera"} \cup MemberTools

\* The list of app.py line 130.
CameraModeTools ==
    {"capture_image_from_camera", "describe_image_from_camera",
     "text_to_speech_gpt4o", "gen_image_dalle3", "chat_gpt4o"}

-----------------------------------------------------------------------------
(* Strings as token sequences.                                              *)

StartsWith(s, p) == Len(s) >= Len(p) /\ SubSeq(s, 1, Len(p)) = p
EndsWith(s, p) == Len(s) >= Len(p) /\ SubSeq(s, Len(s) - Len(p) + 1, Len(s)) = p
RemovePrefix(s, p) == IF StartsWith(s, p) THEN SubSeq(s, Len(p) + 1, Len(s)) ELSE s
RemoveSuffix(s, p) == IF EndsWith(s, p) THEN SubSeq(s, 1, Len(s) - Len(p)) ELSE s

\* Token kinds that are white space (a line break, a blank).
Whitespace == {"newline", "blank"}

-----------------------------------------------------------------------------
(* The oracle's reply.  A token is [k, v]: a code-fence marker (three         *)
(* backquotes), the language tag json, white space, prose, or one complete *)
(* JSON text whose parsed value is v.  A JSON value is an object (with or    *)
(* without the keys tool and args) or something else (an array, a string).   *)
(* An argument map is a set of <<key, value>> pairs.                        *)

NullValue == [type |-> "none", hasTool |-> FALSE, tool |-> None,
              hasArgs |-> FALSE, args |-> {}]

Obj(t, a) == [type |-> "object", hasTool |-> TRUE, tool |-> t,
              hasArgs |-> TRUE, args |-> a]
ObjNoTool(a) == [type |-> "object", hasTool |-> FALSE, tool |-> None,
                 hasArgs |-> TRUE, args |-> a]
ArrayValue == [type |-> "array", hasTool |-> FALSE, tool |-> None,
               hasArgs |-> FALSE, args |-> {}]

Fence == [k |-> "fence", v |-> NullValue]
Lang == [k |-> "json", v |-> NullValue]
Newline == [k |-> "newline", v |-> NullValue]
Prose == [k |-> "prose", v |-> NullValue]
Json(val) == [k |-> "jsontext", v |-> val]

IsSpace(tok) == tok.k \in Whitespace

RECURSIVE LStripTok(_)
LStripTok(s) == IF s # <<>> /\ IsSpace(Head(s)) THEN LStripTok(Tail(s)) ELSE s

RECURSIVE RStripTok(_)
RStripTok(s) ==
    IF s # <<>> /\ IsSpace(s[Len(s)]) THEN RStripTok(SubSeq(s, 1, Len(s) - 1)) ELSE s

\* str.strip() on a reply
StripTok(s) == RStripTok(LStripTok(s))

\* json.loads: white space around one JSON text is allowed, anything else raises.
JsonParses(s) == Len(StripTok(s)) = 1 /\ StripTok(s)[1].k = "jsontext"
JsonLoads(s) == StripTok(s)[1].v

\* The decision of the except branch (app.py 121-126).
DiagnosticPrompt == "ERROR: Invalid JSON returned: ..."
DegradedDecision == Obj("chat_gpt4o", {<<"prompt", DiagnosticPrompt>>})

\* Lines 112-113: the fence is removed only when the reply starts with
\* the fence marker followed by json and ends with the fence marker.
StripFence(r) ==
    IF StartsWith(r, <<Fence, Lang>>) /\ EndsWith(r, <<Fence>>)
    THEN StripTok(RemoveSuffix(RemovePrefix(r, <<Fence, Lang>>), <<Fence>>))
    ELSE r

\* select_tool_using_gpt: o is the oracle's outcome, [exc, content].
select_tool_using_gpt(o) ==
    IF o.exc
    THEN DegradedDecision
    ELSE LET r == StripFence(StripTok(o.content))
         IN  IF JsonParses(r) THEN JsonLoads(r) ELSE DegradedDecision

\* dict.get(key, default) on an argument map
ArgGet(a, key, default) ==
    IF \E p \in a : p[1] = key THEN (CHOOSE p \in a : p[1] = key)[2] ELSE default

-----------------------------------------------------------------------------
(* What run_tool gives back (mcp_client.py): it raises, or it returns the  *)
(* session's result object.  A content part is [hasText, isStr, text], the  *)
(* text a token sequence.                                                   *)

TextPart(s) == [hasText |-> TRUE, isStr |-> TRUE, text |-> s]
NonTextPart == [hasText |-> FALSE, isStr |-> FALSE, text |-> <<>>]

Raises == [kind |-> "raise", hasContent |-> FALSE, content |-> <<>>]
Returns(c) == [kind |-> "object", hasContent |-> TRUE, content |-> c]
NoContentObject == [kind |-> "object", hasContent |-> FALSE, content |-> <<>>]
\* {"error": str(e)} of line 173: a dict, so it has no attribute `content`.
ErrorDict == [kind |-> "error_dict", hasContent |-> FALSE, content |-> <<>>]
NoResult == [kind |-> "none", hasContent |-> FALSE, content |-> <<>>]

\* is_data_audio_url, on a value known to be a str or not
AudioPrefix == <<"data:", "audio/">>
is_data_audio_url_weak(isStr, text) == isStr /\ StartsWith(text, <<"data:">>)
is_data_audio_url(isStr, text) == isStr /\ StartsWith(text, AudioPrefix)

-----------------------------------------------------------------------------
(* The camera widgets.  The same widget code stands twice in app.py: in the *)
(* camera-mode block (133-143) and in the capture branch (217-227).         *)

\* st.checkbox("Enable camera", value=camera_enabled, key=...): a widget that
\* was on screen in the previous run returns what the user left it at (chk),
\* a newly created one returns `value`.
CheckboxValue(shown, chk, en) == IF shown THEN chk ELSE en

\* st.camera_input: a photo can only come from a widget that was on screen.
CameraInput(shown, pic) == IF shown THEN pic ELSE None

\* Lines 133-143 / 217-227.  en, cap: session state before; the result is the
\* session state after and whether the camera widget was rendered.
CameraWidgets(en, cap, chkShown, camShown, chk, pic) ==
    LET enabled == CheckboxValue(chkShown, chk, en)
        picture == IF enabled THEN CameraInput(camShown, pic) ELSE None
    IN  [camera_enabled |-> enabled,
         captured_image |-> IF picture # None THEN picture ELSE cap,
         camera_rendered |-> enabled]

\* Lines 130-156: the camera-mode block at the top of every run.
CameraModeBlock(sel, en, cap, url, chkShown, camShown, chk, pic, newUrl) ==
    IF sel \in CameraModeTools
    THEN LET w == CameraWidgets(en, cap, chkShown, camShown, chk, pic)
         IN  [active |-> TRUE,
              camera_enabled |-> w.camera_enabled,
              captured_image |-> w.captured_image,
              camera_rendered |-> w.camera_rendered,
              url |-> IF w.captured_image # None THEN newUrl ELSE url,
              sink |-> IF w.captured_image # None
                       THEN {"collect_image", "uploaded"}
                       ELSE {"collect_image", "take_picture_info"}]
    ELSE [active |-> FALSE, camera_enabled |-> en, captured_image |-> cap,
          camera_rendered |-> FALSE, url |-> url, sink |-> {}]

-----------------------------------------------------------------------------
(* Turn processing, lines 158-268.                                          *)

NoContent == "unassigned"
EmptyContent == ""

\* Lines 169-173: the guarded run_tool call; t is the transport's outcome.
GuardedResult(t) == IF t.kind = "raise" THEN ErrorDict ELSE t

\* Lines 177, 193, 214, 243: the branches that assign selected_tool.
SelectedToolAfter_nocapture(t, sel) ==
    IF t \in {"gen_image_dalle3", "text_to_speech_gpt4o",
              "describe_image_from_camera"}
    THEN t ELSE sel
SelectedToolAfter_clearing(t, sel) ==
    IF t \in {"gen_image_dalle3", "text_to_speech_gpt4o",
              "capture_image_from_camera", "describe_image_from_camera"}
    THEN t ELSE None
SelectedToolAfter(t, sel) ==
    IF t \in {"gen_image_dalle3", "text_to_speech_gpt4o",
              "capture_image_from_camera", "describe_image_from_camera"}
    THEN t ELSE sel

\* Lines 178-190: the gen_image_dalle3 branch.  [content, sink]
GenImageBranch(res) ==
    IF res.hasContent
    THEN IF res.content = <<>>
         THEN [content |-> "error_parsing_image", sink |-> {}]     \* IndexError, 189
         ELSE IF res.content[1].hasText /\ res.content[1].isStr
              THEN [content |-> "dalle_image_for", sink |-> {"image"}]
              ELSE [content |-> "unexpected_format", sink |-> {}]
    ELSE [content |-> "no_image_content_found", sink |-> {}]

\* Lines 194-212: the text_to_speech_gpt4o branch.  [content, sink]
SpeechBranch(res) ==
    IF res.hasContent
    THEN IF res.content = <<>>
         THEN [content |-> "error_handling_audio_response", sink |-> {}]  \* 211
         ELSE IF res.content[1].hasText /\ res.content[1].isStr
              THEN IF is_data_audio_url(res.content[1].isStr, res.content[1].text)
                   THEN [content |-> "speech_synthesized_for", sink |-> {"audio"}]
                   ELSE [content |-> "invalid_audio_data_url", sink |-> {}]
              ELSE [content |-> "unexpected_audio_content", sink |-> {}]
    ELSE [content |-> "no_audio_content_returned", sink |-> {}]

\* Lines 214-241: the capture branch.  top is the outcome of the camera-mode
\* block of the same run.  A second st.checkbox with the key
\* "enable_camera_capture" in one run is refused by Streamlit (duplicate
\* widget key), so the run dies at line 222 when the block has drawn it.
CaptureBranch(top, chkShown, camShown, chk, pic, newUrl) ==
    IF top.active
    THEN [fault |-> 222, camera_enabled |-> top.camera_enabled,
          captured_image |-> top.captured_image, url |-> top.url,
          camera_rendered |-> top.camera_rendered,
          content |-> NoContent, sink |-> {"camera_mode"}]
    ELSE LET w == CameraWidgets(top.camera_enabled, top.captured_image,
                                chkShown, camShown, chk, pic)
         IN  [fault |-> 0, camera_enabled |-> w.camera_enabled,
              captured_image |-> w.captured_image,
              url |-> IF w.captured_image # None THEN newUrl ELSE top.url,
              camera_rendered |-> w.camera_rendered,
              content |-> IF w.captured_image # None
                          THEN "image_captured_from_camera"
                          ELSE "please_take_a_picture",
              sink |-> IF w.captured_image # None
                       THEN {"camera_mode", "collect_image", "uploaded"}
                       ELSE {"camera_mode", "collect_image", "take_picture_info"}]

\* Lines 243-262: the describe branch.  url is last_uploaded_image_url, t the
\* outcome of the branch's own run_tool call (line 247, not in a try).
\* [calls, result, content, sink, fault]
DescribeBranch(url, res1, t) ==
    IF url # None
    THEN LET call == [tool |-> "describe_image_from_camera",
                      args |-> {<<"image_url", url>>},
                      raised |-> t.kind = "raise"]
         IN  IF t.kind = "raise"
             THEN [calls |-> <<call>>, result |-> res1, content |-> NoContent,
                   sink |-> {}, fault |-> 247]
             ELSE IF t.hasContent /\ t.content = <<>>
                  THEN [calls |-> <<call>>, result |-> t, content |-> NoContent,
                        sink |-> {}, fault |-> 251]                \* IndexError
                  ELSE [calls |-> <<call>>, result |-> t, content |-> EmptyContent,
                        sink |-> {"image_description"}, fault |-> 0]
    ELSE [calls |-> <<>>, result |-> res1, content |-> "please_capture_an_image_first",
          sink |-> {"capture_first_info"}, fault |-> 0]

\* Line 264: every other tool name.
GenericContent == "tool_result_json"

\* Lines 266-268: the assistant turn is recorded when content.strip() is
\* not empty.
RecordAssistant(msgs, c) ==
    IF c # EmptyContent THEN Append(msgs, [role |-> "assistant", content |-> c])
    ELSE msgs

-----------------------------------------------------------------------------
(* The inputs of a run.                                                     *)

UserTexts == {"hello"}
Pictures == {"photo"}
\* get_public_url of a file named after the clock and a fresh uuid4.
Urls == {"url_a", "url_b"}

OracleException == [exc |-> TRUE, content |-> <<>>]
Reply(c) == [exc |-> FALSE, content |-> c]
NoOracle == [exc |-> FALSE, content |-> <<>>]

\* Decisions the oracle may write: tools of the catalogue (one of the five
\* member tools stands for all of them: app.py treats them alike, line 264)
\* and a name that is not in the catalogue.
Decisions ==
    {Obj("chat_gpt4o", {<<"prompt", "hello">>}),
     Obj("gen_image_dalle3", {<<"prompt", "hello">>}),
     Obj("text_to_speech_gpt4o", {<<"text", "hello">>}),
     Obj("capture_image_from_camera", {}),
     Obj("describe_image_from_camera", {<<"image_url", "url_guessed">>}),
     Obj("get_all_members", {<<"role", "admin">>}),
     Obj("send_email", {})}

\* JSON that parses but is no decision.
OtherJson == {ObjNoTool({<<"prompt", "hello">>}), ArrayValue}

Plain(d) == <<Json(d)>>
JsonFenced(d) == <<Fence, Lang, Newline, Json(d), Newline, Fence>>
BareFenced(d) == <<Fence, Newline, Json(d), Newline, Fence>>

FencedDecisions == {Obj("gen_image_dalle3", {<<"prompt", "hello">>})}

OracleOutcomes ==
    {OracleException, Reply(<<Prose>>)}
    \cup {Reply(Plain(d)) : d \in Decisions \cup OtherJson}
    \cup {Reply(JsonFenced(d)) : d \in FencedDecisions}
    \cup {Reply(BareFenced(d)) : d \in FencedDecisions}

TransportOutcomes ==
    {Raises, NoContentObject, Returns(<<>>), Returns(<<NonTextPart>>),
     Returns(<<TextPart(<<"data:", "audio/", "mp3;base64,...">>)>>),
     Returns(<<TextPart(<<"data:", "image/", "png;base64,...">>)>>)}

-----------------------------------------------------------------------------
(* The state after construction: an empty st.session_state.                 *)

Init ==
    /\ messages = <<>>
    /\ selected_tool = None
    /\ camera_enabled = FALSE      \* key absent; lines 133-134 read it as False
    /\ captured_image = None
    /\ last_uploaded_image_url = None
    /\ checkbox_shown = FALSE
    /\ camera_shown = FALSE
    /\ user_input = None
    /\ raw = NoOracle
    /\ routing = NullValue
    /\ tool = None
    /\ args = {}
    /\ calls = <<>>
    /\ result = NoResult
    /\ content = NoContent
    /\ sink = {}
    /\ fault = 0

UserTurns == Cardinality({i \in DOMAIN messages : messages[i].role = "user"})

\* What the user may have done to the widgets of the previous run, and the
\* address the artifact store hands out.  An input the run cannot read (a
\* widget that was not on screen, an address when there is nothing to upload)
\* is not enumerated.
CheckboxInputs == IF checkbox_shown THEN BOOLEAN ELSE {FALSE}
PictureInputs(chk) ==
    IF camera_shown /\ CheckboxValue(checkbox_shown, chk, camera_enabled)
    THEN Pictures \cup {None} ELSE {None}
UrlInputs(pic) ==
    IF captured_image # None \/ pic # None THEN Urls ELSE {"url_a"}

\* A run without a chat message (a widget was touched): lines 130-156 only.
Rerun(chk, pic, newUrl) ==
    LET top == CameraModeBlock(selected_tool, camera_enabled, captured_image,
                               last_uploaded_image_url, checkbox_shown,
                               camera_shown, chk, pic, newUrl)
    IN  /\ top.active
        /\ camera_enabled' = top.camera_enabled
        /\ captured_image' = top.captured_image
        /\ last_uploaded_image_url' = top.url
        /\ checkbox_shown' = top.active
        /\ camera_shown' = top.camera_rendered
        /\ user_input' = None
        /\ raw' = NoOracle
        /\ routing' = NullValue
        /\ tool' = None
        /\ args' = {}
        /\ calls' = <<>>
        /\ result' = NoResult
        /\ content' = NoContent
        /\ sink' = top.sink
        /\ fault' = 0
        /\ UNCHANGED <<messages, selected_tool>>

\* Lines 176-264: the rendering branch of tool tl.  top is the outcome of
\* the camera-mode block, res1 the result of the guarded call, t2 the outcome
\* of the describe branch's own call.
Branch(tl, top, res1, t2, chk, pic, newUrl) ==
    LET keep == [camera_enabled |-> top.camera_enabled,
                 captured_image |-> top.captured_image,
                 url |-> top.url,
                 camera_rendered |-> top.camera_rendered,
                 checkbox_rendered |-> top.active,
                 calls |-> <<>>, result |-> res1, fault |-> 0]
    IN  IF tl = "gen_image_dalle3"
        THEN [keep EXCEPT !.calls = <<>>] @@ GenImageBranch(res1)
        ELSE IF tl = "text_to_speech_gpt4o"
        THEN keep @@ SpeechBranch(res1)
        ELSE IF tl = "capture_image_from_camera"
        THEN LET c == CaptureBranch(top, checkbox_shown, camera_shown, chk, pic, newUrl)
             IN  [camera_enabled |-> c.camera_enabled,
                  captured_image |-> c.captured_image,
                  url |-> c.url,
                  camera_rendered |-> c.camera_rendered,
                  checkbox_rendered |-> TRUE,
                  calls |-> <<>>, result |-> res1, fault |-> c.fault,
                  content |-> c.content, sink |-> c.sink]
        ELSE IF tl = "describe_image_from_camera"
        THEN LET d == DescribeBranch(top.url, res1, t2)
             IN  [keep EXCEPT !.calls = d.calls, !.result = d.result,
                              !.fault = d.fault]
                 @@ [content |-> d.content, sink |-> d.sink]
        ELSE keep @@ [content |-> GenericContent, sink |-> {}]

\* A run with a chat message: the camera-mode block, then lines 158-268.
\* o is the oracle's outcome, t1 and t2 the outcomes of the transport calls.
\* (top, r and b are bound by \E over a singleton so that each is computed
\* once.)
ChatTurn(ui, o, t1, t2, chk, pic, newUrl) ==
    \E top \in {CameraModeBlock(selected_tool, camera_enabled, captured_image,
                                last_uploaded_image_url, checkbox_shown,
                                camera_shown, chk, pic, newUrl)},
       r \in {select_tool_using_gpt(o)} :
        /\ UserTurns < MaxTurns
        /\ user_input' = ui
        /\ raw' = o
        /\ routing' = r
        /\ IF r.type # "object"
           THEN \* routing.get raises AttributeError at line 164
                /\ messages' = Append(messages, [role |-> "user", content |-> ui])
                /\ selected_tool' = selected_tool
                /\ camera_enabled' = top.camera_enabled
                /\ captured_image' = top.captured_image
                /\ last_uploaded_image_url' = top.url
                /\ checkbox_shown' = top.active
                /\ camera_shown' = top.camera_rendered
                /\ tool' = None
                /\ args' = {}
                /\ calls' = <<>>
                /\ result' = NoResult
                /\ content' = NoContent
                /\ sink' = top.sink
                /\ fault' = 164
           ELSE \E tl \in {IF r.hasTool THEN r.tool ELSE None},
                   ar \in {IF r.hasArgs THEN r.args ELSE {}} :
                \E b \in {Branch(tl, top, GuardedResult(t1), t2, chk, pic, newUrl)} :
                    /\ tool' = tl
                    /\ args' = ar
                    /\ calls' = <<[tool |-> tl, args |-> ar,
                                  raised |-> t1.kind = "raise"]>> \o b.calls
                    /\ selected_tool' = SelectedToolAfter(tl, selected_tool)
                    /\ camera_enabled' = b.camera_enabled
                    /\ captured_image' = b.captured_image
                    /\ last_uploaded_image_url' = b.url
                    /\ checkbox_shown' = b.checkbox_rendered
                    /\ camera_shown' = b.camera_rendered
                    /\ result' = b.result
                    /\ content' = b.content
                    /\ sink' = top.sink \cup b.sink
                    /\ fault' = b.fault
                    /\ messages' =
                         IF b.fault = 0
                         THEN RecordAssistant(
                                Append(messages, [role |-> "user", content |-> ui]),
                                b.content)
                         ELSE Append(messages, [role |-> "user", content |-> ui])

\* The second transport call is made only by the describe branch, and only
\* when an address is recorded.
SecondOutcomes(o, pic) ==
    IF /\ select_tool_using_gpt(o).tool = "describe_image_from_camera"
       /\ (last_uploaded_image_url # None \/ captured_image # None \/ pic # None)
    THEN TransportOutcomes ELSE {NoResult}

\* A script run set off by a camera widget.
WidgetRun ==
    \E chk \in CheckboxInputs : \E pic \in PictureInputs(chk) :
        \E newUrl \in UrlInputs(pic) : Rerun(chk, pic, newUrl)

\* A script run set off by a chat message.
ChatRun ==
    /\ UserTurns < MaxTurns
    /\ \E ui \in UserTexts, o \in OracleOutcomes, t1 \in TransportOutcomes,
          chk \in CheckboxInputs :
          \E pic \in PictureInputs(chk) : \E t2 \in SecondOutcomes(o, pic) :
          \E newUrl \in UrlInputs(pic) :
             ChatTurn(ui, o, t1, t2, chk, pic, newUrl)

Next == WidgetRun \/ ChatRun

Spec == Init /\ [][Next]_vars

-----------------------------------------------------------------------------
(* Vocabulary of the properties.                                            *)

Capture == "capture_image_from_camera"
Describe == "describe_image_from_camera"
Speech == "text_to_speech_gpt4o"

\* The latest run processed a chat message.
TurnRan == user_input # None

\* The step is a run that processed a chat message: only line 159 and
\* line 268 touch the history, and line 159 runs in every such run.
TurnStep == messages' # messages

\* Contents that report a failure or an unusable result.
DiagnosticContents ==
    {"error_parsing_image", "unexpected_format", "no_image_content_found",
     "error_handling_audio_response", "invalid_audio_data_url",
     "unexpected_audio_content", "no_audio_content_returned"}

\* The run ended with an envelope that shows the failure: one of the
\* diagnostics, or the generic rendering of the error dict of line 173.
ErrorEnvelope ==
    \/ content \in DiagnosticContents
    \/ content = GenericContent /\ result = ErrorDict

UserTurnRecorded ==
    \E i \in DOMAIN messages :
        messages[i] = [role |-> "user", content |-> user_input]

\* C1: a turn routed to describe_image_from_camera while no artifact address
\* is recorded invokes the transport zero times and ends with the "please
\* capture an image first" guidance.
C1_DescribeWithoutArtifactMakesNoCall ==
    (TurnRan /\ tool = Describe /\ last_uploaded_image_url = None)
        => (calls = <<>> /\ content = "please_capture_an_image_first")

\* C2: a turn routed to describe_image_from_camera while an artifact address
\* is recorded invokes the transport exactly once, with that address as
\* image_url.
C2_DescribeWithArtifactCallsOnce ==
    (TurnRan /\ tool = Describe /\ last_uploaded_image_url # None)
        => /\ Len(calls) = 1
           /\ calls[1].tool = Describe
           /\ calls[1].args = {<<"image_url", last_uploaded_image_url>>}

\* C3: when the last transport invocation of a turn raises, the turn still
\* ends with an envelope and not with an unhandled fault, the envelope shows
\* the error, and the user's message is in the history.  (Stated for every
\* tool but capture_image_from_camera, whose envelope does not depend on the
\* transport; for describe_image_from_camera any envelope is accepted.)
C3_TransportExceptionYieldsErrorEnvelope ==
    (TurnRan /\ tool # Capture /\ calls # <<>> /\ calls[Len(calls)].raised)
        => /\ fault = 0
           /\ content # NoContent
           /\ tool # Describe => ErrorEnvelope
           /\ UserTurnRecorded

\* C4: for a reply that does not parse, a reply that parses without a tool
\* key or to something that is no object, and an oracle exception, the
\* router returns the degraded decision (chat_gpt4o with the diagnostic as
\* prompt), and reading tool and args off the decision does not raise.
C4_BadOracleOutcomeDegrades ==
    (TurnRan /\ (\/ raw.exc
                 \/ raw.content = <<Prose>>
                 \/ \E v \in OtherJson : raw.content = Plain(v)))
        => /\ routing.type = "object"
           /\ routing.hasTool /\ routing.tool = "chat_gpt4o"
           /\ ArgGet(routing.args, "prompt", None) = DiagnosticPrompt
           /\ fault # 164

\* C5: every tool name handed to the transport is one of the ten names of
\* the tool registry.
C5_TransportToolInRegistry ==
    \A i \in DOMAIN calls : calls[i].tool \in ToolRegistry

\* C6: for a well-formed decision R, wrapped in a json-tagged fence or in a
\* bare fence, the router returns what it returns for R unwrapped.
C6_FenceWrappingIsTransparent ==
    \A d \in Decisions :
        (TurnRan /\ raw.content \in {JsonFenced(d), BareFenced(d)})
            => routing = select_tool_using_gpt(Reply(Plain(d)))

\* C7: the history is append-only, and a completed turn appends exactly one
\* user entry followed by one assistant entry, for every tool.
C7_CompletedTurnAppendsBoth ==
    [][/\ Len(messages') >= Len(messages)
       /\ SubSeq(messages', 1, Len(messages)) = messages
       /\ (TurnStep /\ fault' = 0)
            => /\ Len(messages') = Len(messages) + 2
               /\ messages'[Len(messages) + 1].role = "user"
               /\ messages'[Len(messages) + 2].role = "assistant"]_vars

\* The result's first content part is a text string that begins with
\* "data:audio/".
AudioShaped(res) ==
    /\ res.kind = "object" /\ res.hasContent /\ Len(res.content) >= 1
    /\ res.content[1].hasText /\ res.content[1].isStr
    /\ Len(res.content[1].text) >= 2
    /\ res.content[1].text[1] = "data:" /\ res.content[1].text[2] = "audio/"

\* C8: in a text_to_speech_gpt4o turn audio is handed to the sink exactly
\* when the transport result's first content part is a text string beginning
\* with "data:audio/"; every other result, a transport error included, ends
\* in a diagnostic envelope.
C8_AudioOnlyForAudioDataUri ==
    (TurnRan /\ tool = Speech)
        => /\ fault = 0
           /\ ("audio" \in sink) <=> AudioShaped(result)
           /\ AudioShaped(result) => content = "speech_synthesized_for"
           /\ ~AudioShaped(result) => content \in DiagnosticContents

C8_Witness_AudioAccepted ==
    /\ TurnRan /\ tool = Speech /\ AudioShaped(result)
    /\ "audio" \in sink /\ content = "speech_synthesized_for"

\* C9: a capture_image_from_camera turn in a session with no pending tool
\* and no image supplied leaves pending_tool = capture_image_from_camera,
\* asks the sink to collect an image, and leaves the artifact address unset.
C9_CaptureOpensCollection ==
    [][(selected_tool = None /\ captured_image = None /\ TurnStep
            /\ tool' = Capture)
        => /\ selected_tool' = Capture
           /\ "collect_image" \in sink'
           /\ content' = "please_take_a_picture"
           /\ last_uploaded_image_url' = None
           /\ fault' = 0]_vars

C9_Witness_FirstCapture ==
    /\ TurnRan /\ tool = Capture /\ Len(messages) = 2
    /\ selected_tool = Capture /\ "collect_image" \in sink
    /\ content = "please_take_a_picture" /\ last_uploaded_image_url = None

\* C10: a turn whose decision is neither capture nor describe leaves
\* pending_tool and the artifact address as they were, and image collection
\* is offered only while pending_tool is capture_image_from_camera.
C10_OnlyCaptureFlowTouchesPendingState ==
    [][/\ (TurnStep /\ fault' = 0 /\ tool' \notin {Capture, Describe})
            => /\ selected_tool' = selected_tool
               /\ last_uploaded_image_url' = last_uploaded_image_url
       /\ ("collect_image" \in sink') => selected_tool' = Capture]_vars

\* The names a rendering branch stores in selected_tool.
PendingTools ==
    {"capture_image_from_camera", "describe_image_from_camera",
     "gen_image_dalle3", "text_to_speech_gpt4o"}

\* C11: selected_tool is never cleared: once set it holds, in every later
\* state, one of capture_image_from_camera, describe_image_from_camera,
\* gen_image_dalle3 and text_to_speech_gpt4o; last_uploaded_image_url, once
\* set, is never unset again, and changes only in a run that uploaded.
C11_PendingStateNeverCleared ==
    [][/\ selected_tool # None => selected_tool' \in PendingTools
       /\ selected_tool' # None => selected_tool' \in PendingTools
       /\ last_uploaded_image_url # None => last_uploaded_image_url' # None
       /\ last_uploaded_image_url' # last_uploaded_image_url
            => ("uploaded" \in sink' /\ last_uploaded_image_url' \in Urls)]_vars

\* A later turn of another tool ran, and both fields are still set.
C11_Witness_StillSetAfterOtherTurn ==
    /\ TurnRan /\ fault = 0 /\ tool \notin PendingTools
    /\ Len(messages) >= 4
    /\ selected_tool \in PendingTools
    /\ last_uploaded_image_url # None

====
